---- MODULE Spec2Model ----
(***************************************************************************)
(* tlc3: concurrent collection of TLS certificate information.            *)
(*                                                                         *)
(* The model follows cert.go (the revision with the process-wide ipMap    *)
(* and connMap): getCertList dispatches one worker per address under a    *)
(* weighted semaphore and an errgroup; each worker runs newConnector,     *)
(* getTLSConn, lookupIP, getServerCert and the deferred releaseTLSConn    *)
(* and sem.Release.  Strings are sequences of one-character strings, a    *)
(* nil pointer is the empty sequence and a set pointer a one-element      *)
(* sequence, a nil error is the empty sequence.                            *)
(***************************************************************************)
EXTENDS Integers, Sequences, FiniteSets, TLC

(***************************************************************************)
(* Bounds of the model.                                                    *)
(***************************************************************************)
\* Number of getCertList calls made in the process.
MaxCalls == 2
\* runtime.NumCPU() of the machine is between 1 and MaxCPU.
MaxCPU == 2
\* Number of targets dispatched in the process, over all getCertList calls,
\* plus runtime.NumCPU().
MaxLoad == 4
\* Number of connections the peers or the network end during the process.
MaxDeaths == 1

(***************************************************************************)
(* Strings.                                                                *)
(***************************************************************************)
Str443 == <<":", "4", "4", "3">>

Digits == <<"0", "1", "2", "3", "4", "5", "6", "7", "8", "9">>

IsDigit(ch) == \E k \in 1..10 : Digits[k] = ch

DigitVal(ch) == (CHOOSE k \in 1..10 : Digits[k] = ch) - 1

\* strings.Contains(s, ch) for a one-character ch
Contains(s, ch) == \E k \in 1..Len(s) : s[k] = ch

\* index (1-based) of the first ch in s, 0 when there is none
IndexByte(s, ch) ==
    IF Contains(s, ch) THEN CHOOSE k \in 1..Len(s) : s[k] = ch /\ \A j \in 1..(k-1) : s[j] # ch
    ELSE 0

\* index (1-based) of the last ch in s, 0 when there is none
LastIndexByte(s, ch) ==
    IF Contains(s, ch) THEN CHOOSE k \in 1..Len(s) : s[k] = ch /\ \A j \in (k+1)..Len(s) : s[j] # ch
    ELSE 0

\* s[from..to], 1-based and inclusive; empty when from > to
Slice(s, from, to) == IF from > to THEN <<>> ELSE SubSeq(s, from, to)

(***************************************************************************)
(* Errors.  An error is a sequence of strings; the nil error is <<>>.      *)
(***************************************************************************)
NoErr == <<>>

ErrCanceled == <<"context canceled">>

ErrAddr(why, addr) == <<why>> \o addr

ErrDial(addr, cause) == <<"cannot connect to">> \o addr \o cause

ErrNotTLS == <<"connection is not TLS">>

ErrNoCert(host) == <<"cannot find cert for">> \o host

(***************************************************************************)
(* Address normalization.                                                  *)
(***************************************************************************)
\* a fault: the default port is never appended
ensureDefaultPortNever(addr) == addr

\* a fault: the default port is appended to every address
ensureDefaultPortAlways(addr) == addr \o Str443

ensureDefaultPort(addr) ==
    IF ~Contains(addr, ":") THEN addr \o Str443 ELSE addr

\* net.SplitHostPort
SplitHostPort(hostport) ==
    LET i == LastIndexByte(hostport, ":")
        fail(why) == [host |-> <<>>, port |-> <<>>, err |-> ErrAddr(why, hostport)]
    IN  IF i = 0 THEN fail("missing port in address")
        ELSE IF hostport[1] = "["
        THEN LET end == IndexByte(hostport, "]")
             IN  IF end = 0 THEN fail("missing ']' in address")
                 ELSE IF end = Len(hostport) THEN fail("missing port in address")
                 ELSE IF end + 1 # i
                      THEN IF hostport[end + 1] = ":"
                           THEN fail("too many colons in address")
                           ELSE fail("missing port in address")
                 ELSE IF Contains(Slice(hostport, 2, Len(hostport)), "[")
                      THEN fail("unexpected '[' in address")
                 ELSE IF Contains(Slice(hostport, end + 1, Len(hostport)), "]")
                      THEN fail("unexpected ']' in address")
                 ELSE [host |-> Slice(hostport, 2, end - 1),
                       port |-> Slice(hostport, i + 1, Len(hostport)),
                       err  |-> NoErr]
        ELSE IF Contains(Slice(hostport, 1, i - 1), ":")
             THEN fail("too many colons in address")
        ELSE IF Contains(hostport, "[") THEN fail("unexpected '[' in address")
        ELSE IF Contains(hostport, "]") THEN fail("unexpected ']' in address")
        ELSE [host |-> Slice(hostport, 1, i - 1),
              port |-> Slice(hostport, i + 1, Len(hostport)),
              err  |-> NoErr]

\* the cutoff of net.parsePort: larger numbers are clamped to PortCutoff - 1
PortCutoff == 1073741824

RECURSIVE ParseDigits(_, _)
ParseDigits(s, n) ==
    IF s = <<>> THEN n
    ELSE IF n >= PortCutoff THEN PortCutoff
    ELSE ParseDigits(Tail(s), n * 10 + DigitVal(Head(s)))

\* the service names net.LookupPort resolves for "tcp" in this model
Services == { <<"h", "t", "t", "p">>, <<"h", "t", "t", "p", "s">> }

MaxPort == 65535

\* net.LookupPort("tcp", service): TRUE when it returns no error
LookupPortOK(service) ==
    IF service = <<>> THEN TRUE
    ELSE LET neg  == Head(service) = "-"
             body == IF Head(service) \in {"+", "-"} THEN Tail(service) ELSE service
         IN  IF \A k \in 1..Len(body) : IsDigit(body[k])
             THEN LET n    == ParseDigits(body, 0)
                      port == IF ~neg /\ n >= PortCutoff THEN PortCutoff - 1
                              ELSE IF neg THEN 0 - n ELSE n
                  IN  0 <= port /\ port <= MaxPort
             ELSE service \in Services

ensureHostPort(addr) ==
    LET sp == SplitHostPort(addr)
    IN  IF sp.err # NoErr THEN [host |-> <<>>, port |-> <<>>, err |-> sp.err]
        ELSE IF \E port \in {sp.port} : ~LookupPortOK(port)
             THEN [host |-> <<>>, port |-> <<>>, err |-> ErrAddr("invalid port", sp.port)]
        ELSE [host |-> sp.host, port |-> sp.port, err |-> NoErr]

(***************************************************************************)
(* The environment: addresses the callers pass, servers and the resolver.  *)
(***************************************************************************)
\* the raw addresses the callers of one process pass, one pool per process: a
\* host without port, the same host with a port and an address that cannot be
\* split; or two hosts
Pools == { { <<"a">>, <<"a", ":", "8">>, <<"b", ":", ":">> }, { <<"a">>, <<"b">> } }

\* what tls.Dialer.DialContext can yield while the context is live: a TLS session
\* with a peer certificate chain, a TLS session with an empty chain, a failure
\* (refused, timeout, failed verification), a connection that is not *tls.Conn
DialOutcomes == {"ok", "nocert", "fail", "plain"}

\* what net.Resolver.LookupIP can yield while the context is live: an unsorted
\* address list, or a failure (<<>> stands for the failure)
DNSAnswers == { <<2, 1>>, <<>> }

\* the nil slice of a connector that has not looked up its addresses
NilIPs == <<0>>

\* slices.SortFunc(c.ips, bytes.Compare)
SortIPs(ips) == SortSeq(ips, LAMBDA x, y : x < y)

VARIABLES
    ncpu,       \* runtime.NumCPU()
    targets,    \* the raw addresses the callers of this process pass
    ncalls,     \* number of getCertList calls made so far
    dispatched, \* number of targets given to the getCertList calls made so far
    addrs,      \* the argument of the current call
    insecure,   \* the argument of the current call
    res,        \* res[i]: <<>> (nil) or <<info>>
    sem,        \* slots of the limiter that are taken
    ctxDone,    \* the errgroup's context is cancelled
    egErr,      \* the error the errgroup recorded (errOnce)
    dpc,        \* where the body of getCertList is
    di,         \* loop index of getCertList
    ret,        \* what getCertList returned
    pc,         \* pc[i]: where the worker of target i is
    connector,  \* connector[i]: the connector struct of that worker
    werr,       \* werr[i]: the error that worker returns
    ipMap,      \* process-wide: host -> sorted addresses
    connMap,    \* process-wide: host -> connection
    conns,      \* every connection dialed so far, by identity
    deaths,     \* number of connections ended by the peers so far
    trace,      \* history: trace[i], the operations that worker has run, in order
    lookedUp,   \* history: hosts for which a lookupIP call has returned
    arg,        \* the argument of a function called on its own, as the tests call it
    out         \* the results of the successive calls of that function

vars == <<ncpu, targets, ncalls, dispatched, addrs, insecure, res, sem, ctxDone, egErr, dpc, di, ret,
          pc, connector, werr, ipMap, connMap, conns, deaths, trace, lookedUp, arg, out>>

fnVars == <<arg, out>>

inputVars == <<ncpu, targets, ncalls, dispatched, addrs, insecure>>

callVars == <<inputVars, fnVars>>

groupVars == <<sem, ctxDone, egErr>>

dispVars == <<dpc, di, ret>>

cacheVars == <<ipMap, connMap, conns, deaths, lookedUp>>

histVars == <<trace>>

\* the history after the worker of target i has run the operation op
Logged(i, op) == [trace EXCEPT ![i] = Append(@, op)]

\* number of times op occurs in the sequence t
RECURSIVE Count(_, _)
Count(t, op) ==
    IF t = <<>> THEN 0 ELSE (IF Head(t) = op THEN 1 ELSE 0) + Count(Tail(t), op)

NoRet == [res |-> <<>>, err |-> NoErr]

\* the zero connector
NoConnector ==
    [addr |-> <<>>, host |-> <<>>, port |-> <<>>, ips |-> NilIPs,
     insecure |-> FALSE, tlsConn |-> 0]

\* the argument lists of at most n targets a caller may pass
Lists(n) == UNION { [1..k -> targets] : k \in 1..n }

Workers == 1..Len(addrs)

\* sync.Map.Store
Store(m, k, v) == (k :> v) @@ m

Init ==
    /\ ncpu \in 1..MaxCPU
    /\ targets \in Pools
    /\ ncalls = 0
    /\ dispatched = 0
    /\ addrs = <<>>
    /\ insecure = FALSE
    /\ res = <<>>
    /\ sem = 0
    /\ ctxDone = FALSE
    /\ egErr = NoErr
    /\ dpc = "idle"
    /\ di = 0
    /\ ret = NoRet
    /\ pc = <<>>
    /\ connector = <<>>
    /\ werr = <<>>
    /\ ipMap = <<>>
    /\ connMap = <<>>
    /\ conns = <<>>
    /\ deaths = 0
    /\ trace = <<>>
    /\ lookedUp = {}
    /\ arg = <<>>
    /\ out = <<>>

(***************************************************************************)
(* getCertList: the body of the call.                                      *)
(***************************************************************************)
\* a caller enters getCertList (the previous call has returned and its workers
\* have ended): res, sem and the errgroup are made
getCertList(list, insec) ==
    /\ dpc \in {"idle", "returned"}
    /\ \A i \in Workers : pc[i] \in {"idle", "done"}
    /\ ncalls < MaxCalls
    /\ dispatched + Len(list) + ncpu <= MaxLoad
    /\ LET n == Len(list)
       IN  /\ ncalls' = ncalls + 1
           /\ dispatched' = dispatched + n
           /\ addrs' = list
           /\ insecure' = insec
           /\ res' = [i \in 1..n |-> <<>>]
           /\ sem' = 0
           /\ ctxDone' = FALSE
           /\ egErr' = NoErr
           /\ dpc' = "acquire"
           /\ di' = 1
           /\ ret' = NoRet
           /\ pc' = [i \in 1..n |-> "idle"]
           /\ connector' = [i \in 1..n |-> NoConnector]
           /\ werr' = [i \in 1..n |-> NoErr]
           /\ trace' = [i \in 1..n |-> <<>>]
    /\ UNCHANGED <<ncpu, targets, cacheVars, fnVars>>

\* a fault: the limiter admits one holder too many
semAcquireOffByOne ==
    /\ dpc = "acquire"
    /\ IF sem <= ncpu
       THEN /\ sem' = sem + 1
            /\ dpc' = "go"
            /\ ret' = ret
       ELSE /\ ctxDone
            /\ ret' = [res |-> <<>>, err |-> ErrCanceled]
            /\ dpc' = "returned"
            /\ sem' = sem
    /\ UNCHANGED <<callVars, res, ctxDone, egErr, di, pc, connector, werr,
                   cacheVars, histVars>>

\* sem.Acquire(ctx, 1) of golang.org/x/sync v0.4.0: a free slot is taken whether
\* or not ctx is done; with no free slot the call waits for a slot or for ctx,
\* and ctx done makes getCertList return nil and ctx.Err()
semAcquire ==
    /\ dpc = "acquire"
    /\ IF sem < ncpu
       THEN /\ sem' = sem + 1
            /\ dpc' = "go"
            /\ ret' = ret
       ELSE /\ ctxDone
            /\ ret' = [res |-> <<>>, err |-> ErrCanceled]
            /\ dpc' = "returned"
            /\ sem' = sem
    /\ UNCHANGED <<callVars, res, ctxDone, egErr, di, pc, connector, werr,
                   cacheVars, histVars>>

\* eg.Go: the worker of target di starts; the loop goes on or ends
egGo ==
    /\ dpc = "go"
    /\ pc' = [pc EXCEPT ![di] = "new"]
    /\ di' = di + 1
    /\ dpc' = IF di + 1 > Len(addrs) THEN "wait" ELSE "acquire"
    /\ UNCHANGED <<callVars, res, groupVars, ret, connector, werr, cacheVars, histVars>>

\* a fault: the records built so far are returned together with the error
egWaitPartial ==
    /\ dpc = "wait"
    /\ \A i \in Workers : pc[i] = "done"
    /\ ctxDone' = TRUE
    /\ ret' = [res |-> <<res>>, err |-> egErr]
    /\ dpc' = "returned"
    /\ UNCHANGED <<callVars, res, sem, egErr, di, pc, connector, werr, cacheVars, histVars>>

\* eg.Wait: every worker started is done; the context is cancelled and the
\* recorded error, or the result, is returned
egWait ==
    /\ dpc = "wait"
    /\ \A i \in Workers : pc[i] = "done"
    /\ ctxDone' = TRUE
    /\ ret' = IF egErr # NoErr THEN [res |-> <<>>, err |-> egErr]
              ELSE [res |-> <<res>>, err |-> NoErr]
    /\ dpc' = "returned"
    /\ UNCHANGED <<callVars, res, sem, egErr, di, pc, connector, werr, cacheVars, histVars>>

(***************************************************************************)
(* The worker of target i: the function given to eg.Go.                    *)
(***************************************************************************)
\* the connector newConnector builds
newConnectorFields(addr, insec) ==
    LET a  == ensureDefaultPort(addr)
        hp == ensureHostPort(a)
    IN  [addr |-> a, host |-> hp.host, port |-> hp.port, ips |-> NilIPs,
         insecure |-> insec, tlsConn |-> 0]

\* a fault: sem.Release is deferred only after newConnector succeeded
newConnectorBeforeDefer(i) ==
    /\ pc[i] = "new"
    /\ LET hp == ensureHostPort(ensureDefaultPort(addrs[i]))
       IN  IF hp.err # NoErr
           THEN /\ werr' = [werr EXCEPT ![i] = hp.err]
                /\ pc' = [pc EXCEPT ![i] = "finish"]
                /\ connector' = connector
           ELSE /\ connector' = [connector EXCEPT ![i] = newConnectorFields(addrs[i], insecure)]
                /\ pc' = [pc EXCEPT ![i] = "get"]
                /\ werr' = werr
    /\ trace' = Logged(i, "newConnector")
    /\ UNCHANGED <<callVars, res, groupVars, dispVars, cacheVars>>

\* newConnector; on error the worker returns it (only sem.Release is deferred)
newConnector(i) ==
    /\ pc[i] = "new"
    /\ LET hp == ensureHostPort(ensureDefaultPort(addrs[i]))
       IN  IF hp.err # NoErr
           THEN /\ werr' = [werr EXCEPT ![i] = hp.err]
                /\ pc' = [pc EXCEPT ![i] = "semrel"]
                /\ connector' = connector
           ELSE /\ connector' = [connector EXCEPT ![i] = newConnectorFields(addrs[i], insecure)]
                /\ pc' = [pc EXCEPT ![i] = "get"]
                /\ werr' = werr
    /\ trace' = Logged(i, "newConnector")
    /\ UNCHANGED <<callVars, res, groupVars, dispVars, cacheVars>>

\* getTLSConn up to the dial: a connection cached for the host is taken as it
\* is and getTLSConn returns nil; otherwise the dial begins
getTLSConn(i) ==
    /\ pc[i] = "get"
    /\ LET h == connector[i].host
       IN  IF h \in DOMAIN connMap
           THEN /\ connector' = [connector EXCEPT ![i].tlsConn = connMap[h]]
                /\ trace' = Logged(i, "reuse")
                /\ pc' = [pc EXCEPT ![i] = "lookup"]
           ELSE /\ pc' = [pc EXCEPT ![i] = "dial"]
                /\ trace' = Logged(i, "dial")
                /\ connector' = connector
    /\ UNCHANGED <<callVars, res, groupVars, dispVars, werr, cacheVars>>

\* the TLS session a dial of the connector k makes
NewConn(k, outcome) ==
    [host |-> k.host, port |-> k.port, verified |-> ~k.insecure,
     certs |-> (outcome = "ok"), alive |-> TRUE]

\* the identity of the connection the worker of target i of the current call dials
ConnId(i) == dispatched - Len(addrs) + i

\* a fault: the dial is made with a context that is never cancelled
dialResultNoCtx(outcome) == outcome

\* what the dial of getTLSConn yields: a done context makes it fail
dialResult(outcome) == IF ctxDone THEN "canceled" ELSE outcome

\* a fault: a connection that is not *tls.Conn is reported but kept in connMap
dialReturnKeepPlain(i, outcome) ==
    /\ pc[i] = "dial"
    /\ LET k == connector[i]
           r == dialResult(outcome)
       IN  CASE r \in {"canceled", "fail"} ->
                  /\ werr' = [werr EXCEPT ![i] = ErrDial(k.addr, <<"dial error">>)]
                  /\ pc' = [pc EXCEPT ![i] = "semrel"]
                  /\ UNCHANGED <<connector, conns, connMap, trace>>
             [] r = "plain" ->
                  /\ conns' = Store(conns, ConnId(i), NewConn(k, r))
                  /\ connMap' = Store(connMap, k.host, ConnId(i))
                  /\ werr' = [werr EXCEPT ![i] = ErrNotTLS]
                  /\ pc' = [pc EXCEPT ![i] = "semrel"]
                  /\ UNCHANGED <<connector, trace>>
             [] OTHER ->
                  /\ conns' = Store(conns, ConnId(i), NewConn(k, r))
                  /\ connector' = [connector EXCEPT ![i].tlsConn = ConnId(i)]
                  /\ connMap' = Store(connMap, k.host, ConnId(i))
                  /\ trace' = Logged(i, "dialed")
                  /\ pc' = [pc EXCEPT ![i] = "lookup"]
                  /\ werr' = werr
    /\ UNCHANGED <<callVars, res, groupVars, dispVars, ipMap, deaths, lookedUp>>

\* a fault: a failed dial is tried again
dialReturnRetry(i, outcome) ==
    /\ pc[i] = "dial"
    /\ LET k == connector[i]
           r == dialResult(outcome)
       IN  CASE r = "fail" ->
                  /\ pc' = [pc EXCEPT ![i] = "get"]
                  /\ UNCHANGED <<werr, connector, conns, connMap, trace>>
             [] r = "canceled" ->
                  /\ werr' = [werr EXCEPT ![i] = ErrDial(k.addr, ErrCanceled)]
                  /\ pc' = [pc EXCEPT ![i] = "semrel"]
                  /\ UNCHANGED <<connector, conns, connMap, trace>>
             [] r = "plain" ->
                  /\ connector' = [connector EXCEPT ![i].tlsConn = 0]
                  /\ werr' = [werr EXCEPT ![i] = ErrNotTLS]
                  /\ pc' = [pc EXCEPT ![i] = "semrel"]
                  /\ UNCHANGED <<conns, connMap, trace>>
             [] OTHER ->
                  /\ conns' = Store(conns, ConnId(i), NewConn(k, r))
                  /\ connector' = [connector EXCEPT ![i].tlsConn = ConnId(i)]
                  /\ connMap' = Store(connMap, k.host, ConnId(i))
                  /\ trace' = Logged(i, "dialed")
                  /\ pc' = [pc EXCEPT ![i] = "lookup"]
                  /\ werr' = werr
    /\ UNCHANGED <<callVars, res, groupVars, dispVars, ipMap, deaths, lookedUp>>

\* a fault: releaseTLSConn is deferred before getTLSConn is called
dialReturnDeferEarly(i, outcome) ==
    /\ pc[i] = "dial"
    /\ LET k == connector[i]
           r == dialResult(outcome)
       IN  CASE r \in {"canceled", "fail"} ->
                  /\ werr' = [werr EXCEPT ![i] =
                                ErrDial(k.addr, IF r = "canceled" THEN ErrCanceled
                                                ELSE <<"dial error">>)]
                  /\ pc' = [pc EXCEPT ![i] = "release"]
                  /\ UNCHANGED <<connector, conns, connMap, trace>>
             [] r = "plain" ->
                  /\ connector' = [connector EXCEPT ![i].tlsConn = 0]
                  /\ werr' = [werr EXCEPT ![i] = ErrNotTLS]
                  /\ pc' = [pc EXCEPT ![i] = "release"]
                  /\ UNCHANGED <<conns, connMap, trace>>
             [] OTHER ->
                  /\ conns' = Store(conns, ConnId(i), NewConn(k, r))
                  /\ connector' = [connector EXCEPT ![i].tlsConn = ConnId(i)]
                  /\ connMap' = Store(connMap, k.host, ConnId(i))
                  /\ trace' = Logged(i, "dialed")
                  /\ pc' = [pc EXCEPT ![i] = "lookup"]
                  /\ werr' = werr
    /\ UNCHANGED <<callVars, res, groupVars, dispVars, ipMap, deaths, lookedUp>>

\* dialer.DialContext returns and getTLSConn ends: an error (a connection that
\* is not *tls.Conn is closed at once), or the connection is kept in c.tlsConn
\* and stored in connMap
dialReturn(i, outcome) ==
    /\ pc[i] = "dial"
    /\ LET k == connector[i]
           r == dialResult(outcome)
       IN  CASE r \in {"canceled", "fail"} ->
                  /\ werr' = [werr EXCEPT ![i] =
                                ErrDial(k.addr, IF r = "canceled" THEN ErrCanceled
                                                ELSE <<"dial error">>)]
                  /\ pc' = [pc EXCEPT ![i] = "semrel"]
                  /\ UNCHANGED <<connector, conns, connMap, trace>>
             [] r = "plain" ->
                  /\ connector' = [connector EXCEPT ![i].tlsConn = 0]
                  /\ werr' = [werr EXCEPT ![i] = ErrNotTLS]
                  /\ pc' = [pc EXCEPT ![i] = "semrel"]
                  /\ UNCHANGED <<conns, connMap, trace>>
             [] OTHER ->
                  /\ conns' = Store(conns, ConnId(i), NewConn(k, r))
                  /\ connector' = [connector EXCEPT ![i].tlsConn = ConnId(i)]
                  /\ connMap' = Store(connMap, k.host, ConnId(i))
                  /\ trace' = Logged(i, "dialed")
                  /\ pc' = [pc EXCEPT ![i] = "lookup"]
                  /\ werr' = werr
    /\ UNCHANGED <<callVars, res, groupVars, dispVars, ipMap, deaths, lookedUp>>

\* lookupIP up to the resolution: a cached entry is taken; otherwise the
\* resolution begins
lookupIP(i) ==
    /\ pc[i] = "lookup"
    /\ LET h == connector[i].host
       IN  IF h \in DOMAIN ipMap
           THEN /\ connector' = [connector EXCEPT ![i].ips = ipMap[h]]
                /\ lookedUp' = lookedUp \cup {h}
                /\ trace' = Logged(i, "cached")
                /\ pc' = [pc EXCEPT ![i] = "cert"]
           ELSE /\ pc' = [pc EXCEPT ![i] = "resolve"]
                /\ trace' = Logged(i, "query")
                /\ UNCHANGED <<connector, lookedUp>>
    /\ UNCHANGED <<callVars, res, groupVars, dispVars, werr, ipMap, connMap, conns, deaths>>

\* what resolver.LookupIP yields: a done context makes it fail
resolveResult(answer) == IF ctxDone THEN <<>> ELSE answer

\* the history entry of a resolution: whether resolver.LookupIP returned an error
resolveLog(answer) == IF resolveResult(answer) = <<>> THEN "lookupfail" ELSE "lookupok"

\* a fault: a failed resolution is returned to the worker as its error
resolveReturnFatal(i, answer) ==
    /\ pc[i] = "resolve"
    /\ LET h   == connector[i].host
           ips == SortIPs(resolveResult(answer))
       IN  /\ connector' = [connector EXCEPT ![i].ips = ips]
           /\ ipMap' = Store(ipMap, h, ips)
           /\ lookedUp' = lookedUp \cup {h}
           /\ IF ips = <<>>
              THEN /\ werr' = [werr EXCEPT ![i] = <<"lookup error">>]
                   /\ pc' = [pc EXCEPT ![i] = "release"]
              ELSE /\ werr' = werr
                   /\ pc' = [pc EXCEPT ![i] = "cert"]
    /\ trace' = Logged(i, resolveLog(answer))
    /\ UNCHANGED <<callVars, res, groupVars, dispVars, connMap, conns, deaths>>

\* a fault: a failed resolution leaves c.ips nil
resolveReturnNilOnFail(i, answer) ==
    /\ pc[i] = "resolve"
    /\ LET h   == connector[i].host
           ips == IF resolveResult(answer) = <<>> THEN NilIPs
                  ELSE SortIPs(resolveResult(answer))
       IN  /\ connector' = [connector EXCEPT ![i].ips = ips]
           /\ ipMap' = Store(ipMap, h, ips)
           /\ lookedUp' = lookedUp \cup {h}
    /\ trace' = Logged(i, resolveLog(answer))
    /\ pc' = [pc EXCEPT ![i] = "cert"]
    /\ UNCHANGED <<callVars, res, groupVars, dispVars, werr, connMap, conns, deaths>>

\* a fault: a failed resolution returns without storing the empty list
resolveReturnNoStoreOnFail(i, answer) ==
    /\ pc[i] = "resolve"
    /\ LET h   == connector[i].host
           ips == SortIPs(resolveResult(answer))
       IN  /\ connector' = [connector EXCEPT ![i].ips = ips]
           /\ ipMap' = IF ips = <<>> THEN ipMap ELSE Store(ipMap, h, ips)
           /\ lookedUp' = lookedUp \cup {h}
    /\ trace' = Logged(i, resolveLog(answer))
    /\ pc' = [pc EXCEPT ![i] = "cert"]
    /\ UNCHANGED <<callVars, res, groupVars, dispVars, werr, connMap, conns, deaths>>

\* resolver.LookupIP returns and lookupIP ends: the (empty on failure) list is
\* sorted and stored
resolveReturn(i, answer) ==
    /\ pc[i] = "resolve"
    /\ LET h   == connector[i].host
           ips == SortIPs(resolveResult(answer))
       IN  /\ connector' = [connector EXCEPT ![i].ips = ips]
           /\ ipMap' = Store(ipMap, h, ips)
           /\ lookedUp' = lookedUp \cup {h}
    /\ trace' = Logged(i, resolveLog(answer))
    /\ pc' = [pc EXCEPT ![i] = "cert"]
    /\ UNCHANGED <<callVars, res, groupVars, dispVars, werr, connMap, conns, deaths>>

\* the record getServerCert builds from the connector k and its connection
certInfo(k) ==
    [DomainName |-> k.host, AccessPort |-> k.port, IPAddresses |-> k.ips,
     conn |-> k.tlsConn]

\* a fault: the record is put in the first slot that is still nil
setResFirstFree(r, i, info) ==
    LET j == CHOOSE x \in 1..Len(r) : r[x] = <<>> /\ \A y \in 1..(x - 1) : r[y] # <<>>
    IN  [r EXCEPT ![j] = <<info>>]

\* a fault: the record is put in the last slot
setResLast(r, i, info) == [r EXCEPT ![Len(r)] = <<info>>]

\* res[i] = info
setRes(r, i, info) == [r EXCEPT ![i] = <<info>>]

\* a fault: releaseTLSConn is deferred only after getServerCert succeeded
getServerCertLateDefer(i) ==
    /\ pc[i] = "cert"
    /\ LET k == connector[i]
       IN  IF ~conns[k.tlsConn].certs
           THEN /\ werr' = [werr EXCEPT ![i] = ErrNoCert(k.host)]
                /\ res' = res
                /\ pc' = [pc EXCEPT ![i] = "semrel"]
           ELSE /\ res' = setRes(res, i, certInfo(k))
                /\ werr' = werr
                /\ pc' = [pc EXCEPT ![i] = "release"]
    /\ trace' = Logged(i, "getServerCert")
    /\ UNCHANGED <<callVars, groupVars, dispVars, connector, cacheVars>>

\* getServerCert and, when it succeeds, res[i] = info
getServerCert(i) ==
    /\ pc[i] = "cert"
    /\ LET k == connector[i]
       IN  IF ~conns[k.tlsConn].certs
           THEN /\ werr' = [werr EXCEPT ![i] = ErrNoCert(k.host)]
                /\ res' = res
           ELSE /\ res' = setRes(res, i, certInfo(k))
                /\ werr' = werr
    /\ pc' = [pc EXCEPT ![i] = "release"]
    /\ trace' = Logged(i, "getServerCert")
    /\ UNCHANGED <<callVars, groupVars, dispVars, connector, cacheVars>>

\* the deferred releaseTLSConn
releaseTLSConn(i) ==
    /\ pc[i] = "release"
    /\ LET k == connector[i]
       IN  IF k.tlsConn # 0
           THEN /\ connMap' = Store(connMap, k.host, k.tlsConn)
                /\ connector' = [connector EXCEPT ![i].tlsConn = 0]
           ELSE UNCHANGED <<connMap, connector>>
    /\ trace' = Logged(i, "releaseTLSConn")
    /\ pc' = [pc EXCEPT ![i] = "semrel"]
    /\ UNCHANGED <<callVars, res, groupVars, dispVars, werr, ipMap, conns, deaths, lookedUp>>

\* a fault: the deferred sem.Release is missing
semReleaseLeak(i) ==
    /\ pc[i] = "semrel"
    /\ sem' = sem
    /\ pc' = [pc EXCEPT ![i] = "finish"]
    /\ UNCHANGED <<callVars, res, ctxDone, egErr, dispVars, connector, werr,
                   cacheVars, histVars>>

\* the deferred sem.Release(1)
semRelease(i) ==
    /\ pc[i] = "semrel"
    /\ sem' = sem - 1
    /\ pc' = [pc EXCEPT ![i] = "finish"]
    /\ UNCHANGED <<callVars, res, ctxDone, egErr, dispVars, connector, werr,
                   cacheVars, histVars>>

\* the errgroup after the function returned: the first error is recorded and
\* cancels the context (errOnce), then the worker is done and its connector
\* is garbage
egDone(i) ==
    /\ pc[i] = "finish"
    /\ IF werr[i] # NoErr /\ egErr = NoErr
       THEN /\ egErr' = werr[i]
            /\ ctxDone' = TRUE
       ELSE UNCHANGED <<egErr, ctxDone>>
    /\ pc' = [pc EXCEPT ![i] = "done"]
    /\ connector' = [connector EXCEPT ![i] = NoConnector]
    /\ UNCHANGED <<callVars, res, sem, dispVars, werr, cacheVars, histVars>>

\* the connections a connector holds or connMap holds
Reachable == { connector[i].tlsConn : i \in Workers } \cup { connMap[h] : h \in DOMAIN connMap }

\* the peer or the network ends a connection the process still uses
connDies(id) ==
    /\ deaths < MaxDeaths
    /\ id \in DOMAIN conns
    /\ id \in Reachable
    /\ conns[id].alive
    /\ conns' = [conns EXCEPT ![id].alive = FALSE]
    /\ deaths' = deaths + 1
    /\ UNCHANGED <<callVars, res, groupVars, dispVars, pc, connector, werr,
                   ipMap, connMap, lookedUp, histVars>>

Next ==
    \/ \E list \in Lists(MaxLoad - 1) : \E insec \in BOOLEAN : getCertList(list, insec)
    \/ semAcquire
    \/ egGo
    \/ egWait
    \/ \E i \in Workers : newConnector(i)
    \/ \E i \in Workers : getTLSConn(i)
    \/ \E i \in Workers : \E outcome \in DialOutcomes : dialReturn(i, outcome)
    \/ \E i \in Workers : lookupIP(i)
    \/ \E i \in Workers : \E answer \in DNSAnswers : resolveReturn(i, answer)
    \/ \E i \in Workers : getServerCert(i)
    \/ \E i \in Workers : releaseTLSConn(i)
    \/ \E i \in Workers : semRelease(i)
    \/ \E i \in Workers : egDone(i)
    \/ \E id \in DOMAIN conns : connDies(id)

Spec == Init /\ [][Next]_vars

\* a step of the program: of the body of getCertList or of a worker
Step ==
    \/ semAcquire
    \/ egGo
    \/ egWait
    \/ \E i \in Workers : newConnector(i)
    \/ \E i \in Workers : getTLSConn(i)
    \/ \E i \in Workers : \E outcome \in DialOutcomes : dialReturn(i, outcome)
    \/ \E i \in Workers : lookupIP(i)
    \/ \E i \in Workers : \E answer \in DNSAnswers : resolveReturn(i, answer)
    \/ \E i \in Workers : getServerCert(i)
    \/ \E i \in Workers : releaseTLSConn(i)
    \/ \E i \in Workers : semRelease(i)
    \/ \E i \in Workers : egDone(i)

\* the goroutines are scheduled and every dial and every DNS resolution returns
\* (within c.timeout): a step of the program that can be taken is taken
FairSpec == Spec /\ WF_vars(Step)

(***************************************************************************)
(* The normalization functions called on their own.                        *)
(***************************************************************************)
\* length of the raw addresses enumerated over Alphabet
MaxAddrLen == 4

Alphabet == {"a", ":", "0", "8"}

\* raw addresses with a bracketed host, a sign, a service name, a port at and
\* beyond the limits of net.LookupPort
ExtraAddrs ==
    { <<"[", ":", ":", "1", "]", ":", "4", "4", "3">>, <<"[", ":", ":", "1", "]">>,
      <<"[", "a", ":", "8">>, <<"a", "]", ":", "8">>, <<"a", "[">>,
      <<"a", ":", "6", "5", "5", "3", "5">>, <<"a", ":", "6", "5", "5", "3", "6">>,
      <<"a", ":", "1", "0", "7", "3", "7", "4", "1", "8", "2", "4", "0">>,
      <<"a", ":", "h", "t", "t", "p">>, <<"a", ":", "h", "t", "t", "p", "x">>,
      <<"a", ":", "+", "8">>, <<"a", ":", "-", "8">>, <<"a", ":", "-", "0">>,
      <<"a", ":", "+">>, <<"a", ":", "8", "a">> }

RawAddrs == UNION { [1..k -> Alphabet] : k \in 0..MaxAddrLen } \cup ExtraAddrs

\* the process has made no getCertList call
NoCall ==
    /\ ncpu = 1 /\ targets = {} /\ ncalls = 0 /\ dispatched = 0
    /\ addrs = <<>> /\ insecure = FALSE /\ res = <<>>
    /\ sem = 0 /\ ctxDone = FALSE /\ egErr = NoErr
    /\ dpc = "idle" /\ di = 0 /\ ret = NoRet
    /\ pc = <<>> /\ connector = <<>> /\ werr = <<>>
    /\ ipMap = <<>> /\ connMap = <<>> /\ conns = <<>> /\ deaths = 0
    /\ trace = <<>> /\ lookedUp = {}

\* the variables of getCertList and of the caches
programVars ==
    <<inputVars, res, groupVars, dispVars, pc, connector, werr, cacheVars, histVars>>

InitAddr ==
    /\ NoCall
    /\ arg \in RawAddrs
    /\ out = <<>>

\* what one call returns: the function called and the values it returned
Returned(fn, addr, host, port, err) ==
    [fn |-> fn, addr |-> addr, host |-> host, port |-> port, err |-> err]

\* ensureDefaultPort(arg)
Test_ensureDefaultPort ==
    /\ out = <<>>
    /\ out' = << Returned("ensureDefaultPort", ensureDefaultPort(arg), <<>>, <<>>, NoErr) >>
    /\ UNCHANGED <<arg, programVars>>

\* ensureDefaultPort applied to what ensureDefaultPort returned
ensureDefaultPortAgain ==
    /\ Len(out) = 1 /\ out[1].fn = "ensureDefaultPort"
    /\ out' = Append(out, Returned("ensureDefaultPort", ensureDefaultPort(out[1].addr),
                                   <<>>, <<>>, NoErr))
    /\ UNCHANGED <<arg, programVars>>

\* ensureHostPort(arg)
Test_ensureHostPort ==
    /\ out = <<>>
    /\ LET hp == ensureHostPort(arg)
       IN  out' = << Returned("ensureHostPort", arg, hp.host, hp.port, hp.err) >>
    /\ UNCHANGED <<arg, programVars>>

\* what newConnector(addr, ...) returns: the connector's addr, host and port,
\* or the error and no connector
newConnectorReturn(addr) ==
    LET k   == newConnectorFields(addr, FALSE)
        err == ensureHostPort(ensureDefaultPort(addr)).err
    IN  IF err # NoErr THEN Returned("newConnector", <<>>, <<>>, <<>>, err)
        ELSE Returned("newConnector", k.addr, k.host, k.port, NoErr)

\* newConnector(arg, ...)
Test_newConnector ==
    /\ out = <<>>
    /\ out' = << newConnectorReturn(arg) >>
    /\ UNCHANGED <<arg, programVars>>

\* newConnector called again: with the address the first connector dials, or
\* with the same raw address when the first call failed
newConnectorAgain ==
    /\ Len(out) = 1 /\ out[1].fn = "newConnector"
    /\ out' = Append(out, newConnectorReturn(IF out[1].err = NoErr THEN out[1].addr ELSE arg))
    /\ UNCHANGED <<arg, programVars>>

NextAddr ==
    \/ Test_ensureDefaultPort
    \/ ensureDefaultPortAgain
    \/ Test_ensureHostPort
    \/ Test_newConnector
    \/ newConnectorAgain

SpecAddr == InitAddr /\ [][NextAddr]_vars

(***************************************************************************)
(* daysLeft.  An instant is the hours since a reference instant, the       *)
(* seconds within the hour and the nanoseconds within the second; a        *)
(* time.Duration is a sign and a magnitude of the same shape (its int64    *)
(* count of nanoseconds, split so that every part fits 32 bits).           *)
(***************************************************************************)
Second == 1000000000

SecondsPerHour == 3600

\* Time.Before
Before(t, u) ==
    \/ t.h < u.h
    \/ t.h = u.h /\ t.s < u.s
    \/ t.h = u.h /\ t.s = u.s /\ t.n < u.n

\* the exact difference t - u of two instants, for u not after t
Elapsed(t, u) ==
    LET bn == IF t.n < u.n THEN 1 ELSE 0
        bs == IF t.s - bn < u.s THEN 1 ELSE 0
    IN  [h |-> t.h - u.h - bs,
         s |-> t.s - bn - u.s + bs * SecondsPerHour,
         n |-> t.n - u.n + bn * Second]

\* 1<<63 - 1 nanoseconds
maxDuration == [h |-> 2562047, s |-> 2836, n |-> 854775807]

\* the magnitude of -1<<63 nanoseconds
minDuration == [h |-> 2562047, s |-> 2836, n |-> 854775808]

\* Time.Sub: the difference, or maxDuration / minDuration when it does not fit
Sub(t, u) ==
    IF Before(t, u)
    THEN LET d == Elapsed(u, t)
         IN  [neg |-> TRUE, mag |-> IF Before(minDuration, d) THEN minDuration ELSE d]
    ELSE LET d == Elapsed(t, u)
         IN  [neg |-> FALSE, mag |-> IF Before(maxDuration, d) THEN maxDuration ELSE d]

\* the binary exponent of the float64 h, for h >= 1
Exponent(h) == CHOOSE k \in 0..30 : 2^k <= h /\ (k = 30 \/ h < 2^(k + 1))

\* float64 addition hour + nsec/(60*60*1e9) in Duration.Hours rounds to nearest:
\* with hour in [2^k, 2^(k+1)) the sum is hour + 1 when the nanoseconds missing
\* to the next hour are fewer than half a unit in the last place, 2^(k-53) hours,
\* that is at most 3.6e12 / 2^(53-k) = 439453125 / 2^(40-k) nanoseconds
RoundsUpWithin(h) ==
    IF h < 4096 THEN 0 ELSE 439453125 \div 2^(40 - Exponent(h))

\* the whole hours of the float64 |Duration.Hours()| of a duration of magnitude d
Hours(d) ==
    IF /\ d.h >= 1
       /\ d.s = SecondsPerHour - 1
       /\ Second - d.n <= RoundsUpWithin(d.h)
    THEN d.h + 1
    ELSE d.h

\* int(t.Sub(u).Hours() / 24): the float64 division by 24 never reaches the next
\* whole number from below and int() truncates toward zero
daysLeft(t, u) ==
    LET d == Sub(t, u)
        q == Hours(d.mag) \div 24
    IN  IF d.neg THEN 0 - q ELSE q

\* hours of the instants notAfter is drawn from: around one day, around 4104
\* hours (where float64 rounding begins to matter), around 365 days, around
\* maxDuration, and beyond it
NotAfterHours == {0, 1, 23, 24, 4103, 4104, 8759, 8760, 2562047, 2562048, 69904000}

NotAfters == [h : NotAfterHours, s : {0, 2836, 3599}, n : {0, 1, 854775807, 854775808, 999999999}]

Nows == [h : {0, 1}, s : {0, 3599}, n : {0, 1}]

InitDays ==
    /\ NoCall
    /\ arg \in [notAfter : NotAfters, now : Nows]
    /\ out = <<>>

\* daysLeft(arg.notAfter, arg.now)
Test_daysLeft ==
    /\ out = <<>>
    /\ out' = << daysLeft(arg.notAfter, arg.now) >>
    /\ UNCHANGED <<arg, programVars>>

NextDays == Test_daysLeft

SpecDays == InitDays /\ [][NextDays]_vars

(***************************************************************************)
(* getSANs.  A slice is a record: whether it is nil, and its elements.     *)
(***************************************************************************)
\* the decimal text of n, for n in 0..255
Itoa(n) ==
    IF n < 10 THEN << Digits[n + 1] >>
    ELSE IF n < 100 THEN << Digits[(n \div 10) + 1], Digits[(n % 10) + 1] >>
    ELSE << Digits[(n \div 100) + 1], Digits[((n \div 10) % 10) + 1], Digits[(n % 10) + 1] >>

v4InV6Prefix == <<0, 0, 0, 0, 0, 0, 0, 0, 0, 0, 255, 255>>

\* net.IP.To4: the four bytes of an IPv4 address in either form, <<>> for nil
To4(ip) ==
    IF Len(ip) = 4 THEN ip
    ELSE IF Len(ip) = 16 /\ SubSeq(ip, 1, 12) = v4InV6Prefix THEN SubSeq(ip, 13, 16)
    ELSE <<>>

\* net.IP.String for the addresses of the model: the nil address and IPv4
\* addresses of 4 or 16 bytes (IPv6 text is not among the inputs)
IPString(ip) ==
    IF Len(ip) = 0 THEN <<"<", "n", "i", "l", ">">>
    ELSE LET p4 == To4(ip)
         IN  IF p4 = <<>> THEN <<"?">>
             ELSE Itoa(p4[1]) \o <<".">> \o Itoa(p4[2]) \o <<".">> \o Itoa(p4[3])
                    \o <<".">> \o Itoa(p4[4])

\* url.URL.String for a URL of scheme, host and path (no user, query, fragment
\* or opaque part, no character that needs escaping)
URLString(u) ==
    LET scheme == IF u.Scheme # <<>> THEN u.Scheme \o <<":">> ELSE <<>>
        slashes == IF (u.Scheme # <<>> \/ u.Host # <<>>) /\ (u.Host # <<>> \/ u.Path # <<>>)
                   THEN <<"/", "/">> ELSE <<>>
        host    == IF u.Scheme # <<>> \/ u.Host # <<>> THEN u.Host ELSE <<>>
        sep     == IF u.Path # <<>> /\ u.Path[1] # "/" /\ u.Host # <<>> THEN <<"/">> ELSE <<>>
        bare    == scheme \o slashes \o host \o sep = <<>>
        first   == IF Contains(u.Path, "/") THEN Slice(u.Path, 1, IndexByte(u.Path, "/") - 1)
                   ELSE u.Path
        dot     == IF bare /\ Contains(first, ":") THEN <<".", "/">> ELSE <<>>
    IN  scheme \o slashes \o host \o sep \o dot \o u.Path

\* the loop bodies of getSANs: append the text of every element
RECURSIVE appendIPs(_, _)
appendIPs(sans, ips) ==
    IF ips = <<>> THEN sans ELSE appendIPs(Append(sans, IPString(Head(ips))), Tail(ips))

RECURSIVE appendURIs(_, _)
appendURIs(sans, uris) ==
    IF uris = <<>> THEN sans ELSE appendURIs(Append(sans, URLString(Head(uris))), Tail(uris))

\* a fault: the email addresses are appended before the DNS names, and nothing
\* is allocated for a certificate without names
getSANsEmailFirst(cert) ==
    LET s0 == cert.EmailAddresses \o cert.DNSNames
        s1 == appendIPs(s0, cert.IPAddresses)
        s2 == appendURIs(s1, cert.URIs)
    IN  [nil |-> s2 = <<>>, elems |-> s2]

getSANs(cert) ==
    LET s0 == <<>>
        s1 == s0 \o cert.DNSNames
        s2 == s1 \o cert.EmailAddresses
        s3 == appendIPs(s2, cert.IPAddresses)
        s4 == appendURIs(s3, cert.URIs)
    IN  [nil |-> FALSE, elems |-> s4]

\* the names, addresses and URIs the certificates of the model carry
DNSName1 == <<"a", ".", "b">>

DNSName2 == <<"w", ".", "a", ".", "b">>

Email1 == <<"m", "@", "a", ".", "b">>

Email2 == <<"n", "@", "a", ".", "b">>

IP1 == <<192, 168, 10, 10>>

IP2 == v4InV6Prefix \o <<10, 0, 0, 1>>

URI1 == [Scheme |-> <<>>, Host |-> <<>>, Path |-> <<"a", ".", "b", "/">>]

URI2 == [Scheme |-> <<"h">>, Host |-> <<"a", ".", "b">>, Path |-> <<"p">>]

Certs ==
    [DNSNames : { <<>>, <<DNSName1>>, <<DNSName1, DNSName2>>, <<DNSName2, DNSName1>>,
                  <<DNSName1, DNSName1>> },
     EmailAddresses : { <<>>, <<Email1>>, <<Email2, Email1>> },
     IPAddresses : { <<>>, <<IP1>>, <<IP1, IP2>>, <<IP2, IP1>> },
     URIs : { <<>>, <<URI1>>, <<URI2, URI1>> }]

InitSANs ==
    /\ NoCall
    /\ arg \in Certs
    /\ out = <<>>

\* getSANs(arg)
Test_getSANs ==
    /\ out = <<>>
    /\ out' = << getSANs(arg) >>
    /\ UNCHANGED <<arg, programVars>>

NextSANs == Test_getSANs

SpecSANs == InitSANs /\ [][NextSANs]_vars

(***************************************************************************)
(* fromList and checkLine.  A file is whether it can be opened and its     *)
(* content, a sequence of characters.                                      *)
(***************************************************************************)
LF == "\n"

CR == "\r"

\* the characters strings.TrimSpace removes
WhiteSpace == {" ", "\t", LF, CR}

\* the cutset of strings.Trim in checkLine
Quotes == {"'", "\""}

\* dropCR of bufio
dropCR(data) ==
    IF data # <<>> /\ data[Len(data)] = CR THEN Slice(data, 1, Len(data) - 1) ELSE data

\* the tokens bufio.Scanner returns with bufio.ScanLines: the text up to each
\* newline and the text after the last one when it is not empty, each without
\* one trailing carriage return
RECURSIVE ScanLines(_)
ScanLines(data) ==
    IF data = <<>> THEN <<>>
    ELSE LET i == IndexByte(data, LF)
         IN  IF i > 0 THEN << dropCR(Slice(data, 1, i - 1)) >> \o ScanLines(Slice(data, i + 1, Len(data)))
             ELSE << dropCR(data) >>

\* strings.TrimLeft, strings.TrimRight and strings.Trim with a cutset
RECURSIVE TrimLeft(_, _)
TrimLeft(s, cutset) ==
    IF s # <<>> /\ Head(s) \in cutset THEN TrimLeft(Tail(s), cutset) ELSE s

RECURSIVE TrimRight(_, _)
TrimRight(s, cutset) ==
    IF s # <<>> /\ s[Len(s)] \in cutset THEN TrimRight(Slice(s, 1, Len(s) - 1), cutset) ELSE s

Trim(s, cutset) == TrimRight(TrimLeft(s, cutset), cutset)

TrimSpace(s) == Trim(s, WhiteSpace)

\* a fault: a line with a comma is accepted
checkLineAcceptComma(line) ==
    [line |-> Trim(TrimSpace(line), Quotes), err |-> NoErr]

checkLine(line) ==
    LET l1 == TrimSpace(line)
    IN  IF Contains(l1, ",")
        THEN [line |-> <<>>, err |-> <<"invalid line detected: comma not allowed">>]
        ELSE [line |-> Trim(l1, Quotes), err |-> NoErr]

\* the nil slice and a slice with elements
NilSlice == [nil |-> TRUE, elems |-> <<>>]

SliceOf(elems) == [nil |-> FALSE, elems |-> elems]

\* the loop over scanner.Scan(): the lines appended so far, the tokens left
RECURSIVE scanLoop(_, _)
scanLoop(tokens, lines) ==
    IF tokens = <<>> THEN [lines |-> lines, err |-> NoErr]
    ELSE LET r == checkLine(Head(tokens))
         IN  IF r.err # NoErr THEN [lines |-> <<>>, err |-> r.err]
             ELSE scanLoop(Tail(tokens),
                           IF r.line # <<>> THEN Append(lines, r.line) ELSE lines)

\* fromList(fp) with the file at fp (it is read without an I/O error and no line
\* exceeds the scanner's buffer)
fromList(fp, file) ==
    IF fp = <<>> THEN [lines |-> NilSlice, err |-> <<"no file provided">>]
    ELSE IF ~file.exists THEN [lines |-> NilSlice, err |-> <<"cannot open file">> \o fp]
    ELSE LET r == scanLoop(ScanLines(file.data), <<>>)
         IN  IF r.err # NoErr THEN [lines |-> NilSlice, err |-> r.err]
             ELSE IF Len(r.lines) = 0 THEN [lines |-> NilSlice, err |-> <<"no line provided">>]
             ELSE [lines |-> SliceOf(r.lines), err |-> NoErr]

\* length of the file contents enumerated over FileAlphabet
MaxFileLen == 5

FileAlphabet == {"a", " ", LF, CR, ",", "'", "\""}

FileContents == UNION { [1..k -> FileAlphabet] : k \in 0..MaxFileLen }

\* the calls of fromList: a path to a file of every content, the empty path and
\* a path to no file
FromListArgs ==
    [fp : {<<"f">>}, exists : {TRUE}, data : FileContents]
        \cup { [fp |-> <<>>, exists |-> FALSE, data |-> <<>>],
               [fp |-> <<"g">>, exists |-> FALSE, data |-> <<>>] }

InitList ==
    /\ NoCall
    /\ arg \in FromListArgs
    /\ out = <<>>

\* fromList(arg.fp)
Test_fromList ==
    /\ out = <<>>
    /\ out' = << fromList(arg.fp, arg) >>
    /\ UNCHANGED <<arg, programVars>>

NextList == Test_fromList

SpecList == InitList /\ [][NextList]_vars

(***************************************************************************)
(* out and its renderers.  The writer is the sequence of the renderings    *)
(* written to it; a rendering is named by its renderer, its table format,  *)
(* whether the two last columns are ignored and the number of records.     *)
(***************************************************************************)
formats == <<"json", "table", "markdown", "backlog">>

formatJSON == 0

formatTextTable == 1

formatMarkdownTable == 2

formatBacklogTable == 3

\* format.String()
String(f) == IF f >= 0 /\ f < Len(formats) THEN formats[f + 1] ELSE ""

InvalidFormat == <<"cannot parse command line flags: invalid format">>

\* what a call returns: its error, the writer and the renderers it entered
OutResult(err, w, called) == [err |-> err, w |-> w, called |-> called]

\* toJSON: the encoder's write fails when the writer does
toJSON(infos, w, wfails) ==
    IF wfails THEN OutResult(<<"cannot marshal output as json">>, w, <<"toJSON">>)
    ELSE OutResult(NoErr, Append(w, [renderer |-> "json", style |-> "", ignore |-> {}, rows |-> infos]),
                   <<"toJSON">>)

\* toTable: the table is loaded from a well-formed input and rendered; a failing
\* writer leaves nothing written
toTable(infos, w, format, omit, wfails) ==
    LET style  == IF format = String(formatMarkdownTable) THEN "markdown"
                  ELSE IF format = String(formatBacklogTable) THEN "backlog"
                  ELSE "text"
        ignore == IF omit THEN {8, 9} ELSE {}
    IN  OutResult(NoErr,
                  IF wfails THEN w
                  ELSE Append(w, [renderer |-> "table", style |-> style, ignore |-> ignore, rows |-> infos]),
                  <<"toTable">>)

\* a fault: an unknown format is rendered as a text table
outDefaultTable(infos, w, format, omit, wfails) ==
    IF format = String(formatJSON) THEN toJSON(infos, w, wfails)
    ELSE toTable(infos, w, format, omit, wfails)

\* out(infos, w, format, omit); infos is the number of records
outFunc(infos, w, format, omit, wfails) ==
    IF format = String(formatJSON) THEN toJSON(infos, w, wfails)
    ELSE IF format \in {String(formatTextTable), String(formatMarkdownTable), String(formatBacklogTable)}
         THEN toTable(infos, w, format, omit, wfails)
    ELSE OutResult(InvalidFormat, w, <<>>)

\* number of records handed to out
MaxInfos == 2

\* the format strings of the calls: the four formats and strings near them
FormatStrings ==
    {"json", "table", "markdown", "backlog",
     "", "JSON", "Table", "json ", "text", "yaml", "csv", "md"}

OutArgs == [infos : 0..MaxInfos, format : FormatStrings, omit : BOOLEAN, wfails : BOOLEAN]

InitOut ==
    /\ NoCall
    /\ arg \in OutArgs
    /\ out = <<>>

\* out(arg.infos, w, arg.format, arg.omit) with an empty writer
Test_out ==
    /\ out = <<>>
    /\ out' = << outFunc(arg.infos, <<>>, arg.format, arg.omit, arg.wfails) >>
    /\ UNCHANGED <<arg, programVars>>

NextOut == Test_out

SpecOut == InitOut /\ [][NextOut]_vars

(***************************************************************************)
(* The command line: before and action of the app.  A flag is <<>> when it *)
(* is not set and <<value>> when it is; a boolean flag is set or not.      *)
(***************************************************************************)
shells == {"bash", "zsh", "pwsh"}

\* comp(w, s)
comp(s) == IF s \in shells THEN NoErr ELSE <<"invalid completion shell">>

\* the names the time zone database holds
ZoneDB == {"Asia/Tokyo", "Europe/Paris"}

\* time.LoadLocation(name): "" and "UTC" are UTC, "Local" is the local zone, any
\* other name is looked up in the database
LoadLocation(name) ==
    IF name \in {"", "UTC"} THEN [loc |-> "UTC", err |-> NoErr]
    ELSE IF name = "Local" THEN [loc |-> "Local", err |-> NoErr]
    ELSE IF name \in ZoneDB THEN [loc |-> name, err |-> NoErr]
    ELSE [loc |-> "", err |-> <<"unknown time zone">>]

\* log.ParseLevel
Levels == {"debug", "info", "warn", "error", "fatal"}

\* c.IsSet(name) and c.NumFlags()
IsSet(c, name) == IF name \in {"timeout", "insecure", "noTimeInfo"} THEN c[name] ELSE c[name] # <<>>

FlagNames == {"completion", "loglevel", "domain", "file", "output", "timeout",
              "insecure", "noTimeInfo", "timeZone"}

NumFlags(c) == Cardinality({ name \in FlagNames : IsSet(c, name) })

\* c.String(name) with the default value of the flag
StringOf(c, name, default) == IF c[name] # <<>> THEN c[name][1] ELSE default

checkSingle(c, target, flags) ==
    IF IsSet(c, target) /\ \E flag \in flags : IsSet(c, flag)
    THEN <<"not available if other flags are set">>
    ELSE NoErr

\* a fault: --domain and --file may be given together
checkValidPairSkipped(c, a, b) == NoErr

checkValidPair(c, a, b) ==
    IF IsSet(c, a) /\ IsSet(c, b) THEN <<"cannot be used together">> ELSE NoErr

\* insecureConfirm: the answer at the prompt
insecureConfirm(c) == IF c.confirm THEN NoErr ELSE <<"prompt aborted">>

before(c) ==
    IF checkSingle(c, "completion", {"loglevel", "domain", "file", "output", "timeout",
                                     "insecure", "noTimeInfo"}) # NoErr
    THEN checkSingle(c, "completion", {"loglevel", "domain", "file", "output", "timeout",
                                       "insecure", "noTimeInfo"})
    ELSE IF checkValidPair(c, "domain", "file") # NoErr THEN checkValidPair(c, "domain", "file")
    ELSE IF c.insecure /\ insecureConfirm(c) # NoErr THEN insecureConfirm(c)
    ELSE IF StringOf(c, "loglevel", "info") \notin Levels THEN <<"invalid level">>
    ELSE NoErr

\* what a run returns: its error, the functions it called in order, the list
\* passed to getCertList, the records getCertList returned and the writer
Ran5(err, calls, passed, returned, w) ==
    [err |-> err, calls |-> calls, passed |-> passed, returned |-> returned, w |-> w]

\* a run that does not reach getCertList
RunResult(err, calls) == Ran5(err, calls, <<>>, <<>>, <<>>)

\* what getCertList(ctx, domains, ...) returns to the action: an error when a
\* target fails (certs says whether the network lets every target succeed, a
\* malformed address always fails), otherwise one record per target in input
\* order, with the host and port the target normalizes to
getCertListReturn(domains, certs) ==
    IF certs = "ok" /\ \A i \in 1..Len(domains) : ensureHostPort(ensureDefaultPort(domains[i])).err = NoErr
    THEN [infos |-> [i \in 1..Len(domains) |->
                       [DomainName |-> ensureHostPort(ensureDefaultPort(domains[i])).host,
                        AccessPort |-> ensureHostPort(ensureDefaultPort(domains[i])).port,
                        Target     |-> i]],
          err |-> NoErr]
    ELSE [infos |-> <<>>, err |-> <<"getCertList failed">>]

\* the byte of a character
Byte(ch) ==
    CASE ch = "0" -> 48 [] ch = "4" -> 52 [] ch = "3" -> 51 [] ch = "8" -> 56
      [] ch = ":" -> 58 [] ch = "a" -> 97 [] ch = "b" -> 98 [] OTHER -> 0

\* cmp.Compare(s, t) < 0 for strings: bytewise lexicographic order
RECURSIVE StrLess(_, _)
StrLess(s, t) ==
    IF t = <<>> THEN FALSE
    ELSE IF s = <<>> THEN TRUE
    ELSE IF Head(s) # Head(t) THEN Byte(Head(s)) < Byte(Head(t))
    ELSE StrLess(Tail(s), Tail(t))

\* the comparison the action sorts with
cmpDomainName(x, y) == StrLess(x.DomainName, y.DomainName)

\* the inner loop of the insertion sort: the element at j moves down while it
\* is less than the element before it
RECURSIVE sinkLast(_, _)
sinkLast(data, j) ==
    IF j > 1 /\ cmpDomainName(data[j], data[j - 1])
    THEN sinkLast([data EXCEPT ![j] = data[j - 1], ![j - 1] = data[j]], j - 1)
    ELSE data

\* the outer loop of the insertion sort, which is what slices.SortFunc runs on at
\* most 12 elements
RECURSIVE insertionSort(_, _)
insertionSort(data, i) ==
    IF i > Len(data) THEN data
    ELSE insertionSort(sinkLast(data, i), i + 1)

\* a fault: the records are rendered as getCertList returned them
SortFuncSkipped(data) == data

\* slices.SortFunc(infos, cmp) of the action
SortFunc(data) == insertionSort(data, 2)

\* the target list the action builds from the flags: --file replaces --domain
domainsOf(c, listed) ==
    IF IsSet(c, "file") THEN listed
    ELSE IF IsSet(c, "domain") THEN c.domain[1] ELSE <<>>

\* action(c); c.certs is whether the network lets getCertList succeed
action(c) ==
    IF NumFlags(c) = 0 THEN RunResult(NoErr, <<"ShowAppHelp">>)
    ELSE IF IsSet(c, "completion") THEN RunResult(comp(c.completion[1]), <<"comp">>)
    ELSE LET listed  == IF IsSet(c, "file") THEN fromList(c.file[1].fp, c.file[1])
                        ELSE [lines |-> NilSlice, err |-> NoErr]
             domains == domainsOf(c, listed.lines.elems)
             pre     == IF IsSet(c, "file") THEN <<"fromList">> ELSE <<>>
             loc     == LoadLocation(StringOf(c, "timeZone", "Local"))
             got     == getCertListReturn(domains, c.certs)
             infos   == SortFunc(got.infos)
             o       == outFunc(infos, <<>>, StringOf(c, "output", String(formatJSON)),
                                c.noTimeInfo, FALSE)
         IN  IF listed.err # NoErr THEN RunResult(listed.err, pre)
             ELSE IF Len(domains) = 0 THEN RunResult(<<"cannot receive domain names">>, pre)
             ELSE IF loc.err # NoErr
                  THEN RunResult(<<"cannot load timezone">>, pre \o <<"LoadLocation">>)
             ELSE IF got.err # NoErr
                  THEN Ran5(got.err, pre \o <<"LoadLocation", "getCertList">>, domains, <<>>, <<>>)
             ELSE Ran5(o.err, pre \o <<"LoadLocation", "getCertList", "out">>, domains,
                       got.infos, o.w)

\* app.RunContext: Before, then Action when Before returned no error
RunContext(c) ==
    IF before(c) # NoErr THEN RunResult(before(c), <<>>) ELSE action(c)

\* the files --file names: none, an empty one, one of three lines out of order
ListFiles ==
    { [fp |-> <<"g">>, exists |-> FALSE, data |-> <<>>],
      [fp |-> <<"e">>, exists |-> TRUE, data |-> <<>>],
      [fp |-> <<"f">>, exists |-> TRUE,
       data |-> <<"b", LF, "'", "a", "'", LF, " ", "a", "b", LF>>] }

Flag(values) == {<<>>} \cup { <<v>> : v \in values }

\* the target lists --domain gives
DomainLists ==
    { << <<"a">> >>,
      << <<"b">>, <<"a", ":", "8">>, <<"a">> >>,
      << <<"a", "b">>, <<"a">> >>,
      << <<"a">>, <<"b", ":", ":">> >>,
      << <<>> >> }

\* the command lines
Contexts ==
    { c \in [completion : Flag({"bash", "fish"}),
             loglevel   : Flag({"debug", "bogus"}),
             domain     : Flag(DomainLists),
             file       : Flag(ListFiles),
             output     : Flag({"table", "yaml"}),
             timeout    : BOOLEAN,
             insecure   : BOOLEAN,
             confirm    : BOOLEAN,
             noTimeInfo : BOOLEAN,
             timeZone   : Flag({"", "UTC", "Asia/Tokyo", "Mars/Phobos", "JST"}),
             certs      : {"ok", "error"}] :
        ~c.insecure => c.confirm }

InitCLI ==
    /\ NoCall
    /\ arg \in Contexts
    /\ out = <<>>

\* the app runs with the command line arg
Test_CLI ==
    /\ out = <<>>
    /\ out' = << RunContext(arg) >>
    /\ UNCHANGED <<arg, programVars>>

NextCLI == Test_CLI

SpecCLI == InitCLI /\ [][NextCLI]_vars

(***************************************************************************)
(* Properties.                                                             *)
(***************************************************************************)
\* the step stays within one getCertList call
SameCall == ncalls' = ncalls

\* getTLSConn of the worker of target i has returned nil
Got(i) == Count(trace[i], "reuse") + Count(trace[i], "dialed") > 0

\* the worker of target i has been given a limiter slot and has not released it
Holding(i) == pc[i] \in {"new", "get", "dial", "lookup", "resolve", "cert", "release", "semrel"}

\* what normalizing the raw address a yields
Normalized(a) == ensureHostPort(ensureDefaultPort(a))

\* C1: a call that returns no error returns one record per address, every
\* record set, record i carrying the host and port addrs[i] normalizes to.
C1_ResultInInputOrder ==
    (dpc = "returned" /\ ret.err = NoErr) =>
        /\ ret.res # <<>>
        /\ Len(ret.res[1]) = Len(addrs)
        /\ \A i \in 1..Len(addrs) :
              /\ ret.res[1][i] # <<>>
              /\ ret.res[1][i][1].DomainName = Normalized(addrs[i]).host
              /\ ret.res[1][i][1].AccessPort = Normalized(addrs[i]).port

\* a call of two different addresses has returned its records, one of them
\* read from a connection another worker dialed (a cache hit)
C1_Witness ==
    /\ dpc = "returned" /\ ret.err = NoErr
    /\ Len(addrs) = 2 /\ addrs[1] # addrs[2]
    /\ \E i \in 1..2 : ret.res[1][i][1].conn # ConnId(i)

\* C2: the workers holding a limiter slot are never more than the limiter
\* size, and neither are the slots taken.
C2_LimiterBound ==
    /\ Cardinality({ i \in Workers : Holding(i) }) <= ncpu
    /\ sem <= ncpu

\* the limiter is full and the dispatcher waits with a target left
C2_Witness ==
    /\ dpc = "acquire" /\ di <= Len(addrs)
    /\ Cardinality({ i \in Workers : Holding(i) }) = ncpu
    /\ ~ctxDone

\* C3: a call that has returned while a worker of it ended in an error has
\* returned an error and a nil result.
C3_AllOrNothing ==
    (dpc = "returned" /\ \E i \in Workers : werr[i] # NoErr) =>
        (ret.err # NoErr /\ ret.res = <<>>)

\* a call has returned an error although a healthy target had its record built
C3_Witness ==
    /\ dpc = "returned" /\ ret.err # NoErr /\ ret.res = <<>>
    /\ \E i \in Workers : res[i] # <<>>
    /\ \E i \in Workers : werr[i] = ErrNoCert(<<"a">>)

\* C4 (as claimed): the error a call returns is the error of the first worker
\* that failed, the one the errgroup recorded.
C4_ReturnsFirstError ==
    (dpc = "returned" /\ ret.err # NoErr) => ret.err = egErr

\* C5 (as claimed): once the context is cancelled no target is newly
\* dispatched and no connector newly obtains a connection.
C5_NothingAfterCancel ==
    [][(SameCall /\ ctxDone) =>
         \A i \in Workers :
            /\ pc[i] = "idle" => pc'[i] = "idle"
            /\ ~Got(i) => ~Got(i)']_vars

\* C5 (amended): once the context is cancelled, every dial and every DNS
\* resolution that returns fails (no connection is made or cached, the IP list
\* is empty) and a limiter acquisition that finds no free slot fails.
C5_CancelAbortsBlockingCalls ==
    [][(SameCall /\ ctxDone) =>
         /\ \A i \in Workers :
               /\ (pc[i] = "dial" /\ pc'[i] # "dial") =>
                     /\ pc'[i] = "semrel" /\ werr'[i] # NoErr
                     /\ connector'[i].tlsConn = 0
                     /\ conns' = conns /\ connMap' = connMap
               /\ (pc[i] = "resolve" /\ pc'[i] # "resolve") =>
                     connector'[i].ips = <<>>
         /\ (dpc = "acquire" /\ dpc' # "acquire" /\ sem = ncpu) =>
               (dpc' = "returned" /\ ret'.err = ErrCanceled /\ ret'.res = <<>>)]_vars

\* a dial and a DNS resolution have been aborted by the cancellation
C5_Witness ==
    /\ ctxDone /\ dpc # "returned"
    /\ \E i \in Workers : werr[i] = ErrDial(connector[i].addr, ErrCanceled) /\ pc[i] = "semrel"

\* C6 (as claimed): a connection taken from connMap is alive when getTLSConn
\* hands it to the connector.
C6_ReuseOnlyAlive ==
    [][SameCall =>
         \A i \in Workers :
            (pc[i] = "get" /\ pc'[i] = "lookup") => conns[connMap[connector[i].host]].alive]_vars

\* C7 (as claimed): no two connectors hold the same connection.
C7_ExclusiveConn ==
    \A i, j \in Workers :
        (i # j /\ connector[i].tlsConn # 0) => connector[i].tlsConn # connector[j].tlsConn

\* C8 (as claimed): a connection that is broken when it is released is not in
\* connMap afterwards.
C8_ReleaseOnlyHealthy ==
    [][SameCall =>
         \A i \in Workers :
            (pc[i] = "release" /\ pc'[i] = "semrel" /\ connector[i].tlsConn # 0
               /\ ~conns[connector[i].tlsConn].alive) =>
            \A h \in DOMAIN connMap' : connMap'[h] # connector[i].tlsConn]_vars

\* C9: when the function of a worker has run its deferred calls, releaseTLSConn
\* has run once if getTLSConn returned nil and never otherwise, and the
\* connector holds no connection; releaseTLSConn never runs twice.
C9_ReleaseExactlyOnce ==
    \A i \in Workers :
        /\ Count(trace[i], "releaseTLSConn") <= 1
        /\ pc[i] \in {"semrel", "finish", "done"} =>
              /\ Count(trace[i], "releaseTLSConn") = (IF Got(i) THEN 1 ELSE 0)
              /\ connector[i].tlsConn = 0

\* a worker whose getServerCert failed has released its connection
C9_Witness ==
    \E i \in Workers :
        /\ pc[i] = "semrel" /\ Got(i)
        /\ werr[i] = ErrNoCert(connector[i].host)
        /\ Count(trace[i], "releaseTLSConn") = 1

\* C10: a lookupIP call for a host for which a lookupIP call has returned
\* issues no DNS query, leaves ipMap alone and sets c.ips to the cached value.
C10_SecondLookupFromCache ==
    [][SameCall =>
         \A i \in Workers :
            (pc[i] = "lookup" /\ pc'[i] # "lookup" /\ connector[i].host \in lookedUp) =>
               /\ pc'[i] = "cert"
               /\ connector[i].host \in DOMAIN ipMap
               /\ connector'[i].ips = ipMap[connector[i].host]
               /\ ipMap' = ipMap]_vars

\* in a second call a worker has taken the empty list from ipMap without a query
C10_Witness ==
    /\ ncalls = 2
    /\ \E i \in Workers :
          /\ pc[i] = "cert"
          /\ Count(trace[i], "cached") = 1 /\ Count(trace[i], "query") = 0
          /\ connector[i].ips = <<>>

\* the worker of target i has had a DNS resolution fail
LookupFailed(i) == Count(trace[i], "lookupfail") > 0

\* C11 (as claimed): an entry of ipMap, once written, keeps its value for the
\* rest of the process.
C11_WrittenOnce ==
    [][\A h \in DOMAIN ipMap : h \in DOMAIN ipMap' /\ ipMap'[h] = ipMap[h]]_vars

\* C12: a DNS resolution that returns, whatever its outcome, leaves the worker's
\* error, the recorded error and the context alone and the worker goes on to
\* getServerCert; and getServerCert of a connection with a certificate chain
\* puts a record with the connector's IP list in res[i] and leaves the error nil.
C12_LookupNeverFatal ==
    [][SameCall =>
         \A i \in Workers :
            /\ (pc[i] = "resolve" /\ pc'[i] # "resolve") =>
                  /\ pc'[i] = "cert"
                  /\ werr' = werr /\ egErr' = egErr /\ ctxDone' = ctxDone
            /\ (pc[i] = "cert" /\ pc'[i] # "cert" /\ conns[connector[i].tlsConn].certs) =>
                  /\ werr'[i] = NoErr
                  /\ res'[i] # <<>>
                  /\ res'[i][1].IPAddresses = connector[i].ips]_vars

\* a call has returned its records, no error, although the resolution of a
\* target failed in that call
C12_Witness ==
    /\ dpc = "returned" /\ ret.err = NoErr /\ ret.res # <<>>
    /\ \E i \in Workers : LookupFailed(i) /\ ret.res[1][i][1].IPAddresses = <<>>

\* C13: when a DNS resolution fails, lookupIP leaves the connector with the empty
\* list (not the nil one) and ipMap with the empty list for the host; the worker
\* keeps the empty list, its record carries it, and every host a lookupIP call
\* has returned for has an ipMap entry, so that later calls take the entry.
C13_FailureCachedAsEmpty ==
    [][SameCall =>
         /\ \A i \in Workers :
               /\ (pc[i] = "resolve" /\ LookupFailed(i)') =>
                     /\ connector'[i].ips = <<>>
                     /\ connector[i].host \in DOMAIN ipMap'
                     /\ ipMap'[connector[i].host] = <<>>
               /\ (LookupFailed(i) /\ pc[i] \in {"cert", "release", "semrel"}) =>
                     connector[i].ips = <<>>
               /\ (LookupFailed(i) /\ res'[i] # <<>>) => res'[i][1].IPAddresses = <<>>
         /\ lookedUp' \subseteq DOMAIN ipMap']_vars

\* the resolution of a host failed in the first call and a worker of the second
\* call has built its record from the cached empty list, with no resolution
C13_Witness ==
    /\ ncalls = 2
    /\ \E i \in Workers :
          /\ res[i] # <<>> /\ res[i][1].IPAddresses = <<>>
          /\ Count(trace[i], "cached") = 1 /\ Count(trace[i], "query") = 0

\* C14 (as claimed): every record a call with insecure = false returns was read
\* from a connection whose handshake verified the chain and the server name.
C14_VerifiedUnlessInsecure ==
    (dpc = "returned" /\ ret.err = NoErr /\ ~insecure) =>
        \A i \in 1..Len(addrs) : conns[ret.res[1][i][1].conn].verified

\* the raw address a is malformed: newConnector returns an error for it
Malformed(a) == Normalized(a).err # NoErr

\* the worker of target i has started a dial or a DNS resolution
Networked(i) == Count(trace[i], "dial") + Count(trace[i], "query") > 0

\* C15 (as claimed): a call that has returned and had a malformed target in its
\* list has failed, and no worker of it has started a dial or a DNS resolution.
C15_NoNetworkBeforeRejection ==
    (dpc = "returned" /\ \E i \in Workers : Malformed(addrs[i])) =>
        /\ ret.err # NoErr
        /\ \A j \in Workers : ~Networked(j)

\* the text p is a decimal number in 1..65535
ValidTCPPort(p) ==
    /\ p # <<>>
    /\ \A k \in 1..Len(p) : IsDigit(p[k])
    /\ ParseDigits(p, 0) >= 1 /\ ParseDigits(p, 0) <= 65535

\* number of colons in s
Colons(s) == Cardinality({ k \in 1..Len(s) : s[k] = ":" })

\* the text after the last colon of s
AfterLastColon(s) == Slice(s, LastIndexByte(s, ":") + 1, Len(s))

\* C16 (as claimed): the port of a connector newConnector returns is a decimal
\* number in 1..65535, and 443 when the raw address has no colon.
C16_PortInRange ==
    (out # <<>> /\ out[1].fn = "newConnector" /\ out[1].err = NoErr) =>
        /\ ValidTCPPort(out[1].port)
        /\ ~Contains(arg, ":") => out[1].port = <<"4", "4", "3">>

\* C17 (as claimed): ensureHostPort returns empty host and port with every
\* error; of the addresses without brackets it rejects those that do not have
\* exactly one colon and those whose port is not a decimal number in 1..65535,
\* and returns the text before and after the colon for the others.
C17_HostPortOrError ==
    (out # <<>> /\ out[1].fn = "ensureHostPort") =>
        LET r == out[1]
            i == IndexByte(arg, ":")
            h == Slice(arg, 1, i - 1)
            p == Slice(arg, i + 1, Len(arg))
        IN  /\ r.err # NoErr => (r.host = <<>> /\ r.port = <<>>)
            /\ (~Contains(arg, "[") /\ ~Contains(arg, "]")) =>
                  /\ Colons(arg) # 1 => r.err # NoErr
                  /\ (Colons(arg) = 1 /\ ~ValidTCPPort(p)) => r.err # NoErr
                  /\ (Colons(arg) = 1 /\ ValidTCPPort(p)) =>
                        (r.err = NoErr /\ r.host = h /\ r.port = p)

\* C18: ensureDefaultPort returns an address without colon followed by ":443"
\* and every address with a colon as it is; the connector newConnector builds
\* from an address without colon dials that address followed by ":443", with
\* the address as host and 443 as port.
C18_DefaultPortAdded ==
    out # <<>> =>
        /\ out[1].fn = "ensureDefaultPort" =>
              IF Contains(arg, ":") THEN out[1].addr = arg
              ELSE /\ Len(out[1].addr) = Len(arg) + 4
                   /\ Slice(out[1].addr, 1, Len(arg)) = arg
                   /\ Slice(out[1].addr, Len(arg) + 1, Len(arg) + 4) = <<":", "4", "4", "3">>
        /\ (out[1].fn = "newConnector" /\ out[1].err = NoErr /\ ~Contains(arg, ":")) =>
              /\ out[1].addr = arg \o <<":", "4", "4", "3">>
              /\ out[1].host = arg
              /\ out[1].port = <<"4", "4", "3">>

\* newConnector has built the connector of a target given without a port
C18_Witness ==
    /\ out # <<>> /\ out[1].fn = "newConnector" /\ out[1].err = NoErr
    /\ arg = <<"a", "0">>
    /\ out[1].addr = <<"a", "0", ":", "4", "4", "3">>

\* C19: ensureDefaultPort applied to its own result returns it unchanged;
\* newConnector called again, on the address the first connector dials (on the
\* same raw address when the first call failed), returns the same addr, host and
\* port or the same error; and the connector newConnector builds from an address
\* with a colon has that address and the text after its last colon as port.
C19_NormalizeIdempotent ==
    /\ (Len(out) = 2 /\ out[2].fn = "ensureDefaultPort") => out[2].addr = out[1].addr
    /\ (Len(out) = 2 /\ out[2].fn = "newConnector") => out[2] = out[1]
    /\ (out # <<>> /\ out[1].fn = "newConnector" /\ out[1].err = NoErr /\ Contains(arg, ":")) =>
          /\ out[1].addr = arg
          /\ out[1].port = AfterLastColon(arg)

\* a target given without a port has been normalized twice, the second time
\* from the address with the default port
C19_Witness ==
    /\ Len(out) = 2 /\ out[2].fn = "newConnector" /\ out[2].err = NoErr
    /\ arg = <<"a">>
    /\ out[2].port = <<"4", "4", "3">>

\* C20 (as claimed): for notAfter not before now, daysLeft is the number of
\* complete 24-hour periods in the exact difference notAfter - now.
C20_CompletePeriods ==
    (out # <<>> /\ ~Before(arg.notAfter, arg.now)) =>
        out[1] = Elapsed(arg.notAfter, arg.now).h \div 24

\* C21 (as claimed): for notAfter before now, daysLeft is negative and is the
\* floor of the exact difference in days, that is minus the number of 24-hour
\* periods begun since notAfter.
C21_NegativeWhenExpired ==
    (out # <<>> /\ Before(arg.notAfter, arg.now)) =>
        LET d == Elapsed(arg.now, arg.notAfter)
            whole == d.h \div 24
            begun == IF d.h % 24 = 0 /\ d.s = 0 /\ d.n = 0 THEN whole ELSE whole + 1
        IN  /\ out[1] < 0
            /\ out[1] = 0 - begun

\* C22: the result of getSANs is not nil and has one entry per DNS name, email
\* address, IP address and URI of the certificate: the DNS names first, then the
\* email addresses, then the texts of the IP addresses, then the texts of the
\* URIs, each group in the certificate's order.
C22_SANsInOrder ==
    out # <<>> =>
        LET r  == out[1].elems
            nd == Len(arg.DNSNames)
            ne == Len(arg.EmailAddresses)
            ni == Len(arg.IPAddresses)
            nu == Len(arg.URIs)
        IN  /\ ~out[1].nil
            /\ Len(r) = nd + ne + ni + nu
            /\ \A k \in 1..nd : r[k] = arg.DNSNames[k]
            /\ \A k \in 1..ne : r[nd + k] = arg.EmailAddresses[k]
            /\ \A k \in 1..ni : r[nd + ne + k] = IPString(arg.IPAddresses[k])
            /\ \A k \in 1..nu : r[nd + ne + ni + k] = URLString(arg.URIs[k])

\* the names of a certificate with two entries of every kind but the last, as
\* in the test, have been listed; the addresses and the URI appear as text
C22_Witness ==
    /\ out # <<>>
    /\ arg.DNSNames = <<DNSName1, DNSName2>> /\ arg.EmailAddresses = <<Email2, Email1>>
    /\ arg.IPAddresses = <<IP1, IP2>> /\ arg.URIs = <<URI1>>
    /\ out[1].elems[5] = <<"1", "9", "2", ".", "1", "6", "8", ".", "1", "0", ".", "1", "0">>
    /\ out[1].elems[6] = <<"1", "0", ".", "0", ".", "0", ".", "1">>
    /\ out[1].elems[7] = <<"a", ".", "b", "/">>

\* C23: when the dial of getTLSConn returns, either getTLSConn returns an error,
\* and then the connector holds no connection, no connection is made and connMap
\* is as before, or it returns nil with the new connection held by the connector
\* and stored under the host.
C23_FailedDialLeavesNothing ==
    [][SameCall =>
         \A i \in Workers :
            (pc[i] = "dial" /\ pc'[i] # "dial") =>
               IF werr'[i] # NoErr
               THEN /\ pc'[i] = "semrel"
                    /\ connector'[i].tlsConn = 0
                    /\ conns' = conns
                    /\ connMap' = connMap
               ELSE /\ pc'[i] = "lookup"
                    /\ connector'[i].tlsConn \in DOMAIN conns' \ DOMAIN conns
                    /\ connMap'[connector[i].host] = connector'[i].tlsConn]_vars

\* a dial has failed and a dialed connection has turned out not to be TLS, for
\* hosts that have no entry in connMap
C23_Witness ==
    /\ \E i \in Workers : werr[i] = ErrNotTLS /\ pc[i] = "semrel"
    /\ \E i \in Workers : werr[i] = ErrDial(<<"a", ":", "4", "4", "3">>, <<"dial error">>)
    /\ connMap = <<>>

\* C24: within one call a worker starts at most one dial and at most one DNS
\* resolution and runs getServerCert at most once.
C24_NoRetry ==
    \A i \in Workers :
        /\ Count(trace[i], "dial") <= 1
        /\ Count(trace[i], "query") <= 1
        /\ Count(trace[i], "getServerCert") <= 1

\* a worker whose dial failed has ended, after one dial
C24_Witness ==
    \E i \in Workers :
        /\ pc[i] = "done"
        /\ werr[i] = ErrDial(<<"a", ":", "4", "4", "3">>, <<"dial error">>)
        /\ Count(trace[i], "dial") = 1

\* C25 (as claimed): when getCertList has returned, every worker it started has
\* ended.
C25_JoinedBeforeReturn ==
    dpc = "returned" => \A i \in Workers : pc[i] \in {"idle", "done"}

\* C26: a getCertList call that has been entered eventually returns.
C26_EventuallyReturns == (dpc \in {"acquire", "go", "wait"}) ~> (dpc = "returned")

\* a call of three targets on one CPU has returned: the dispatcher has waited
\* for a slot, and the context was cancelled by a worker's error
C26_Witness ==
    /\ dpc = "returned" /\ ncpu = 1 /\ Len(addrs) = 3
    /\ egErr # NoErr
    /\ ret.err # NoErr

\* s without the characters of set at its two ends
Stripped(s, set) ==
    LET inner == { k \in 1..Len(s) : s[k] \notin set }
    IN  IF inner = {} THEN <<>>
        ELSE Slice(s, CHOOSE k \in inner : \A m \in inner : k <= m,
                      CHOOSE k \in inner : \A m \in inner : k >= m)

\* C27: fromList fails, returning nil, when the path is empty, the file cannot be
\* opened, a line contains a comma or no line is left; otherwise it returns, in
\* file order, every line that is not empty after its surrounding white space
\* and then its surrounding quotes were removed, so trimmed.
C27_FromListLines ==
    out # <<>> =>
        LET r       == out[1]
            toks    == ScanLines(arg.data)
            trim(k) == Stripped(Stripped(toks[k], WhiteSpace), Quotes)
            kept    == { k \in 1..Len(toks) : trim(k) # <<>> }
            nth(j)  == CHOOSE k \in kept : Cardinality({ m \in kept : m < k }) = j - 1
        IN  IF \/ arg.fp = <<>>
               \/ ~arg.exists
               \/ \E k \in 1..Len(toks) : Contains(toks[k], ",")
               \/ kept = {}
            THEN r.err # NoErr /\ r.lines.nil
            ELSE /\ r.err = NoErr
                 /\ ~r.lines.nil
                 /\ Len(r.lines.elems) = Cardinality(kept)
                 /\ \A j \in 1..Cardinality(kept) : r.lines.elems[j] = trim(nth(j))

\* a file of a quoted line, a blank line and a line ending in CR LF has been
\* read: two lines are returned
C27_Witness ==
    /\ out # <<>> /\ out[1].err = NoErr
    /\ arg.data = <<"'", "a", LF, LF, "a">> \/ arg.data = <<"\"", "a", LF, "a", CR>>
    /\ out[1].lines.elems = << <<"a">>, <<"a">> >>

\* C28: for a format other than json, table, markdown and backlog out returns an
\* error and writes nothing, whatever omit is; for json it enters toJSON only, for
\* the three others toTable only with that format, and never reports an invalid
\* format.
C28_OutDispatch ==
    out # <<>> =>
        LET r == out[1]
        IN  IF arg.format \notin {"json", "table", "markdown", "backlog"}
            THEN r.err # NoErr /\ r.w = <<>> /\ r.called = <<>>
            ELSE /\ r.err # InvalidFormat
                 /\ r.called = IF arg.format = "json" THEN <<"toJSON">> ELSE <<"toTable">>
                 /\ \A k \in 1..Len(r.w) :
                        /\ r.w[k].renderer = (IF arg.format = "json" THEN "json" ELSE "table")
                        /\ r.w[k].style = (CASE arg.format = "json" -> ""
                                             [] arg.format = "table" -> "text"
                                             [] OTHER -> arg.format)

\* out was called with the format "JSON" and omit set for two records: it failed
\* and wrote nothing
C28_Witness ==
    /\ out # <<>>
    /\ arg.format = "JSON" /\ arg.omit /\ arg.infos = 2 /\ ~arg.wfails
    /\ out[1].err = InvalidFormat /\ out[1].w = <<>>

\* the step of a worker an entry of its history belongs to: 1 newConnector,
\* 2 getTLSConn, 3 lookupIP, 4 getServerCert, 5 releaseTLSConn
StepOf(op) ==
    CASE op = "newConnector" -> 1
      [] op \in {"reuse", "dial", "dialed"} -> 2
      [] op \in {"cached", "query", "lookupok", "lookupfail"} -> 3
      [] op = "getServerCert" -> 4
      [] op = "releaseTLSConn" -> 5

\* the worker of target i has run an entry of the step n
Ran(i, n) == \E k \in 1..Len(trace[i]) : StepOf(trace[i][k]) = n

\* lookupIP of the worker of target i has returned
LookedUp(i) == Count(trace[i], "cached") + Count(trace[i], "lookupok") + Count(trace[i], "lookupfail") > 0

\* C29: the history of every worker runs through newConnector, getTLSConn,
\* lookupIP, getServerCert and releaseTLSConn in this order, each step entered
\* only after the one before it succeeded; nothing follows a failed
\* normalization, no lookup, extraction or release follows a failed getTLSConn,
\* and res[i] is set only once getServerCert has run and returned no error.
C29_StepsInOrder ==
    \A i \in Workers :
        /\ \A k \in 1..(Len(trace[i]) - 1) : StepOf(trace[i][k]) <= StepOf(trace[i][k + 1])
        /\ trace[i] # <<>> => trace[i][1] = "newConnector"
        /\ \A op \in {"newConnector", "getServerCert", "releaseTLSConn"} : Count(trace[i], op) <= 1
        /\ Malformed(addrs[i]) => \A n \in 2..5 : ~Ran(i, n)
        /\ Ran(i, 3) => Got(i)
        /\ Ran(i, 4) => Got(i) /\ LookedUp(i)
        /\ Ran(i, 5) => Got(i)
        /\ res[i] # <<>> => Count(trace[i], "getServerCert") = 1 /\ werr[i] = NoErr

\* in one call a worker ran all five steps and wrote its record, another failed
\* in its dial and ran nothing after it
C29_Witness ==
    \E i, j \in Workers :
        /\ trace[i] = <<"newConnector", "dial", "dialed", "query", "lookupok",
                        "getServerCert", "releaseTLSConn">>
        /\ res[i] # <<>>
        /\ pc[j] = "done" /\ trace[j] = <<"newConnector", "dial">>

\* the time zone identifier of the command line c is one time.LoadLocation rejects
InvalidZone(c) == c.timeZone # <<>> /\ LoadLocation(c.timeZone[1]).err # NoErr

\* C30 (as claimed): a run with an invalid time zone identifier fails, and
\* getCertList is not called in it.
C30_InvalidZoneFails ==
    (out # <<>> /\ InvalidZone(arg)) =>
        /\ out[1].err # NoErr
        /\ \A k \in 1..Len(out[1].calls) : out[1].calls[k] # "getCertList"

\* the run called the function f
Called(r, f) == \E k \in 1..Len(r.calls) : r.calls[k] = f

C32_CompletionAlone ==
    (out # <<>> /\ IsSet(arg, "completion")
                /\ \E flag \in FlagNames \ {"completion"} : IsSet(arg, flag)) =>
        /\ out[1].err = <<"not available if other flags are set">>
        /\ ~Called(out[1], "comp")
        /\ ~Called(out[1], "getCertList")

\* the string s is not greater than the string t, byte by byte
NotGreater(s, t) ==
    LET diff == { k \in 1..Len(s) : k > Len(t) \/ s[k] # t[k] }
    IN  IF diff = {} THEN TRUE
        ELSE LET k == CHOOSE x \in diff : \A y \in diff : x <= y
             IN  k <= Len(t) /\ Byte(s[k]) < Byte(t[k])

\* C38: every rendering a run writes has its records in non-decreasing
\* DomainName order, and holds each record as often as the list getCertList
\* returned holds it.
C38_RenderedSorted ==
    out # <<>> =>
        \A k \in 1..Len(out[1].w) :
            LET rows == out[1].w[k].rows
            IN  /\ \A i \in 1..(Len(rows) - 1) : NotGreater(rows[i].DomainName, rows[i + 1].DomainName)
                /\ Len(rows) = Len(out[1].returned)
                /\ \A i \in 1..Len(rows) : Count(rows, rows[i]) = Count(out[1].returned, rows[i])

\* the targets b, a:8 and a were given in this order and rendered as a:8, a, b
C38_Witness ==
    /\ out # <<>>
    /\ arg.domain = << << <<"b">>, <<"a", ":", "8">>, <<"a">> >> >>
    /\ Len(out[1].w) = 1
    /\ [i \in 1..3 |-> out[1].w[1].rows[i].Target] = <<2, 3, 1>>
    /\ [i \in 1..3 |-> out[1].returned[i].Target] = <<1, 2, 3>>

\* C33 (as claimed): every record written for a target carries the certificate
\* fields of a connection that was dialed to the host and to the port of the
\* record.
C33_RecordFromOwnPort ==
    \A i \in 1..Len(res) :
        res[i] # <<>> =>
            LET info == res[i][1]
            IN  /\ info.conn \in DOMAIN conns
                /\ conns[info.conn].host = info.DomainName
                /\ conns[info.conn].port = info.AccessPort

\* C34 (as claimed): when every worker of the call has finished, every
\* connection that was dialed and has not ended is the one connMap holds for
\* its host.
C34_NoStrayConnection ==
    (Workers # {} /\ \A i \in Workers : pc[i] = "done") =>
        \A id \in DOMAIN conns :
            conns[id].alive =>
                /\ conns[id].host \in DOMAIN connMap
                /\ connMap[conns[id].host] = id

\* C35 (as claimed): an empty entry is put into ipMap only by a resolution that
\* ran with a live context, never by one that failed because the context of the
\* call had been cancelled.
C35_NoEmptyEntryFromCancel ==
    [][\A h \in DOMAIN ipMap' :
          (ipMap'[h] = <<>> /\ (h \notin DOMAIN ipMap \/ ipMap[h] # <<>>)) => ~ctxDone]_vars

\* C36: the slots taken are those of the workers that were given one and have
\* not yet released it, plus the one the dispatcher has acquired for the worker
\* it is about to start; a slot is released only by a worker that holds one, one
\* slot at a time, as the last step of that worker, which then holds none; so
\* no slot is released that was not acquired, and none is held when every
\* worker has finished.
C36_SlotReleasedOnce ==
    /\ [](sem = Cardinality({ i \in Workers : Holding(i) }) + (IF dpc = "go" THEN 1 ELSE 0))
    /\ []((dpc \in {"wait", "returned"} /\ \A i \in Workers : pc[i] \in {"idle", "finish", "done"})
             => sem = 0)
    /\ [][(SameCall /\ sem' < sem) =>
             /\ sem' = sem - 1
             /\ \E i \in Workers :
                   /\ Holding(i) /\ ~Holding(i)'
                   /\ \A j \in Workers \ {i} : Holding(j)' = Holding(j)]_vars

\* a call has returned after one worker failed in its normalization and another
\* wrote its record; every worker is done and no slot is taken
C36_Witness ==
    /\ dpc = "returned" /\ sem = 0
    /\ \A i \in Workers : pc[i] = "done"
    /\ \E i, j \in Workers :
          /\ trace[i] = <<"newConnector">>
          /\ res[j] # <<>>

\* C37: a slot of res changes only from nil to a record, in the step in which
\* the worker of that slot ends its getServerCert without an error, and no
\* other slot changes in that step; a worker that has an error has no record in
\* its slot.
C37_OwnSlotOnce ==
    /\ [](\A i \in Workers : werr[i] # NoErr => res[i] = <<>>)
    /\ [][SameCall =>
             \A i \in Workers :
                res'[i] # res[i] =>
                    /\ res[i] = <<>> /\ res'[i] # <<>>
                    /\ pc[i] = "cert" /\ pc'[i] # "cert"
                    /\ Count(trace'[i], "getServerCert") = 1
                    /\ werr'[i] = NoErr
                    /\ res'[i][1].DomainName = connector[i].host
                    /\ res'[i][1].AccessPort = connector[i].port
                    /\ \A j \in Workers \ {i} : res'[j] = res[j] /\ pc'[j] = pc[j]]_vars

\* in a call of three targets the worker of the second target has written its
\* slot, the worker of the first found no certificate and wrote none
C37_Witness ==
    /\ Len(addrs) = 3
    /\ res[2] # <<>> /\ res[1] = <<>> /\ res[3] = <<>>
    /\ pc[1] = "done" /\ Got(1) /\ werr[1] # NoErr

====
